---- MODULE Spec2Model ----
(***************************************************************************)
(* gochat: the chat-room membership logic of the HTTP handlers             *)
(* (src/types.go) over the Postgres store (src/unnamed/part_000).          *)
(*                                                                         *)
(* The two tables are the shared state.  Every request is a process that   *)
(* walks through its handler; each store round-trip is one step, so that   *)
(* requests served by different goroutines interleave between round-trips. *)
(***************************************************************************)
EXTENDS Integers, Sequences, FiniteSets, TLC

(* ---------------------------------------------------------------- bounds *)

\* rows the users table may hold
MaxUsers == 2
\* rows the chat table may hold when requests are served one at a time, and
\* when they interleave or the clock runs
MaxChats == 2
MaxConcChats == 1
\* rows the users table may hold in the runs where one user's requests race
MaxRaceUsers == 1
\* requests that may be in flight at the same time
NumProcs == 2
\* store writes that may fail in one run
MaxFailures == 1
\* the "expiresAt" claim createJWT puts in every token
ExpiresAt == 15000
\* the clock advances in jumps of ExpiresAt, at most MaxJumps times
MaxJumps == 2

Procs == 1..NumProcs

\* the lengths handleRegister allows a username and an email
MaxUsernameLen == 20
MaxEmailLen == 50

\* request inputs.  A username or email is the sequence of its characters'
\* Unicode code points: "ann", "bob", "a@x", "b@x"
Ann == <<97, 110, 110>>
Bob == <<98, 111, 98>>
AnnMail == <<97, 64, 120>>
BobMail == <<98, 64, 120>>
Passwords == {"p", "q"}
Registrations ==
    {[username |-> Ann, email |-> AnnMail, pw |-> "p"],
     [username |-> Bob, email |-> BobMail, pw |-> "q"]}

\* the text of n characters with code point cp
Repeat(cp, n) == [i \in 1..n |-> cp]

\* registrations at and around the limits: a username of 20 letters with an
\* email of 50, a username of 21 letters, an email of 51 letters, a username of
\* 11 times the letter e-acute (code point 233), the empty username and email,
\* and bob's username with ann's email
LimitRegistrations ==
    {[username |-> Repeat(97, MaxUsernameLen), email |-> Repeat(97, MaxEmailLen), pw |-> "p"],
     [username |-> Repeat(97, MaxUsernameLen + 1), email |-> <<99, 64, 120>>, pw |-> "p"],
     [username |-> <<99>>, email |-> Repeat(97, MaxEmailLen + 1), pw |-> "p"],
     [username |-> Repeat(233, 11), email |-> <<100, 64, 120>>, pw |-> "p"],
     [username |-> <<>>, email |-> <<>>, pw |-> "p"],
     [username |-> Bob, email |-> AnnMail, pw |-> "q"]}

VARIABLES
    users,   \* table users: row i has id i (serial primary key)
    chat,    \* table chat: row i has id i (serial primary key)
    pc,      \* pc[p]: where request p stands in its handler
    req,     \* req[p]: the request p serves (method/route, token, body)
    ctx,     \* ctx[p]: the *User the middleware put in the request context
    loc,     \* loc[p]: the handler's local *Chat
    failed,  \* store writes that failed so far
    serial,  \* whether the server takes one request at a time
    resp,    \* serial runs: the response the step just taken wrote, with its request
    snap,    \* serial runs: the tables and the count of failed writes when the
             \* last request was taken
    run,     \* the run's limits on rows, the chat passwords its clients use, and
             \* what it keeps a history of
    hist,    \* history of the run, kept for the claims only
    now      \* the server's clock

vars == <<users, chat, failed, serial, pc, req, ctx, loc, resp, snap, run, hist, now>>

ChatLimit == run.chats
ChatIds == 1..ChatLimit

(* ------------------------------------------------------------- sequences *)

Contains(s, x) == \E i \in 1..Len(s) : s[i] = x

Count(s, x) == Cardinality({i \in 1..Len(s) : s[i] = x})

\* RemoveFirst whose loop never finds the id
RemoveFirstNothing(s, x) == s

\* append(s[:i], s[i+1:]...) for the first i with s[i] = x; s when there is none
RemoveFirst(s, x) ==
    IF Contains(s, x)
    THEN LET i == CHOOSE k \in 1..Len(s) : s[k] = x /\ \A j \in 1..(k-1) : s[j] # x
         IN  SubSeq(s, 1, i-1) \o SubSeq(s, i+1, Len(s))
    ELSE s

\* all enumerations of a finite set
Orders(S) ==
    {f \in [1..Cardinality(S) -> S] : \A i, j \in 1..Cardinality(S) : i # j => f[i] # f[j]}

(* ------------------------------------------------------------ Go values *)

\* len(s) of a Go string: the bytes of its UTF-8 encoding, one to four for each
\* character
len(s) ==
    Len(s) + Cardinality({i \in 1..Len(s) : s[i] >= 128})
           + Cardinality({i \in 1..Len(s) : s[i] >= 2048})
           + Cardinality({i \in 1..Len(s) : s[i] >= 65536})

\* bcrypt.GenerateFromPassword: a one-way hash (the salt plays no part in any
\* decision of the program and is left out)
Hash(pw) == <<"bcrypt", pw>>

CompareHashAndPassword(h, pw) == Len(h) = 2 /\ h[1] = "bcrypt" /\ h[2] = pw

NoHash == <<>>

\* zero values
NoUser == [Id |-> 0, Username |-> <<>>, Email |-> <<>>, Password |-> NoHash, Chats |-> <<>>]
NoChat == [Id |-> 0, Password |-> NoHash, Messages |-> <<>>, Users |-> <<>>]
NoReq ==
    [op |-> "", uid |-> 0, id |-> 0, pw |-> "", username |-> <<>>, email |-> <<>>,
     auth |-> <<>>]

\* ValidatePassword with the comparison's result dropped
ChatValidateAnyPassword(c, pw) == TRUE

\* Chat.ValidatePassword
ChatValidatePassword(c, pw) == CompareHashAndPassword(c.Password, pw)

\* ValidatePassword with the comparison's result dropped
UserValidateAnyPassword(u, pw) == TRUE

\* User.ValidatePassword
UserValidatePassword(u, pw) == CompareHashAndPassword(u.Password, pw)

ToJSON(c) == [id |-> c.Id, messages |-> c.Messages, users |-> c.Users]

(* ------------------------------------------------------------ responses *)

\* http.Error(w, msg, status)
HttpError(msg, status) == [status |-> status, text |-> msg, json |-> <<>>]
\* WriteJSON(w, status, v)
WriteJSON(status, v) == [status |-> status, text |-> "", json |-> <<v>>]
\* a handler that returns without writing: net/http answers 200 with no body
Unwritten == [status |-> 200, text |-> "", json |-> <<>>]
\* a handler that panics: net/http recovers, logs and closes the connection; the
\* client gets no response
Panic == [status |-> 0, text |-> "panic", json |-> <<>>]

(* ------------------------------------------------------------ the store *)

\* PostgresStore.GetUserById: the row decoded into a User
GetUserById(id) ==
    [Id |-> id, Username |-> users[id].Username, Email |-> users[id].Email,
     Password |-> users[id].Password, Chats |-> users[id].Chats]

UserExists(id) == id \in 1..Len(users)

\* ids of the rows `select ... from users where email = $1` matches
RowsByEmail(email) == {i \in 1..Len(users) : users[i].Email = email}

\* ids of the rows `select username from users where id = any($1)` matches
RowsByIds(arr) == {i \in 1..Len(users) : Contains(arr, i)}

\* PostgresStore.GetAuthors, the rows coming back in the order `rows`: the i-th
\* row's username is paired with the i-th id of the argument
GetAuthors(arr, rows) ==
    [i \in 1..Len(rows) |-> [Id |-> arr[i], Username |-> users[rows[i]].Username]]

ChatExists(id) == id \in 1..Len(chat)

\* PostgresStore.GetChatById for a stored row, the authors' rows coming back in
\* the order `rows`.  Messages is the empty slice the Chat was built with:
\* json.Unmarshal fills the local m, not chat.Messages.
GetChatById(id, rows) ==
    [Id |-> id, Password |-> chat[id].Password, Messages |-> <<>>,
     Users |-> GetAuthors(chat[id].Users, rows)]

\* the values GetChatById(id) may return, over the orders the store may use
GetChatByIdResults(id) == {GetChatById(id, rows) : rows \in Orders(RowsByIds(chat[id].Users))}

\* the values PostgresStore.GetChats(arr) may return: the stored chats whose id
\* is in arr, each read as GetChatById reads it, in any order
GetChatsResults(arr) ==
    LET ids == {i \in 1..Len(chat) : Contains(arr, i)}
        reads == {f \in [ids -> UNION {GetChatByIdResults(i) : i \in ids}] :
                     \A i \in ids : f[i].Id = i}
    IN  {[k \in 1..Cardinality(ids) |-> f[o[k]]] : f \in reads, o \in Orders(ids)}

\* UpdateUser concatenating to the stored array: set chats = chats || $1
UpdateUserAppend(u) ==
    [i \in 1..Len(users) |->
        IF i = u.Id THEN [users[i] EXCEPT !.Chats = @ \o u.Chats] ELSE users[i]]

\* PostgresStore.UpdateUser: update users set chats=$1 where id=$2
UpdateUser(u) ==
    [i \in 1..Len(users) |-> IF i = u.Id THEN [users[i] EXCEPT !.Chats = u.Chats] ELSE users[i]]

\* PostgresStore.UpdateChat: update chat set messages=$1, users=$2 where id=$3
UpdateChat(c) ==
    [i \in 1..Len(chat) |->
        IF i = c.Id
        THEN [chat[i] EXCEPT !.Messages = c.Messages,
                             !.Users = [k \in 1..Len(c.Users) |-> c.Users[k].Id]]
        ELSE chat[i]]

\* PostgresStore.CreateChat: the inserted row, and the Chat returned
CreateChatRow(password, user) ==
    [Password |-> password, Messages |-> <<>>, Users |-> <<user.Id>>]

CreateChat(password, user) ==
    [Id |-> Len(chat) + 1, Password |-> password, Messages |-> <<>>,
     Users |-> <<[Id |-> user.Id, Username |-> user.Username]>>]

\* PostgresStore.CreateUser: the inserted row
CreateUserRow(username, email, password) ==
    [Username |-> username, Email |-> email, Password |-> password, Chats |-> <<>>]

(* ------------------------------------------------------------- requests *)

\* nothing has happened yet
NoHist == [granted |-> {}, left |-> {}, late |-> {}, registered |-> {}]

\* the server starts on the tables PostgresStore.Init finds (`create table if
\* not exists`): users0 and chat0
Start(oneAtATime, limits, users0, chat0) ==
    /\ users = users0
    /\ chat = chat0
    /\ run = limits
    /\ hist = NoHist
    /\ now = 0
    /\ failed = 0
    /\ serial = oneAtATime
    /\ pc = [p \in Procs |-> "idle"]
    /\ req = [p \in Procs |-> NoReq]
    /\ ctx = [p \in Procs |-> NoUser]
    /\ loc = [p \in Procs |-> NoChat]
    /\ resp = <<>>
    /\ snap = <<>>

\* the server starts on empty tables
Boot(oneAtATime) ==
    Start(oneAtATime,
          [users |-> MaxUsers, chats |-> IF oneAtATime THEN MaxChats ELSE MaxConcChats,
           passwords |-> Passwords, track |-> {}],
          <<>>, <<>>)

\* no request is being served
Idle == \A p \in Procs : pc[p] = "idle"

\* whether the run records the response to request r: every response when
\* requests are served one at a time, those of GetChat when it keeps a history
Observed(r) == serial \/ (run.track # {} /\ r.op = "get")

\* the history after request r on connection p was answered with w.
\*   granted: <<u, c>> when u created c or got past the password check of a Join
\*            of c sent with c's password
\*   left: <<u, c>> when a Leave of c by u succeeded and no Join of c by u was
\*         completed since
\*   late: the connections whose GetChat was taken while its <<user, chat>> was
\*         in left, no Join of that chat by that user completed since
\*   registered: what each successful Register was sent and answered
Answer(p, r, w) ==
    [granted |->
        IF /\ "granted" \in run.track /\ r.op = "join" /\ w.status = 200
           /\ CompareHashAndPassword(chat[r.id].Password, r.pw)
        THEN hist.granted \cup {<<r.uid, r.id>>} ELSE hist.granted,
     left |->
        IF "left" \in run.track /\ r.op = "leave" /\ w.status = 200
        THEN hist.left \cup {<<r.uid, r.id>>}
        ELSE IF "left" \in run.track /\ r.op = "join" /\ w.status = 200
        THEN hist.left \ {<<r.uid, r.id>>} ELSE hist.left,
     late |->
        IF "left" \in run.track /\ r.op = "join" /\ w.status = 200
        THEN {q \in hist.late : q # p /\ <<req[q].uid, req[q].id>> # <<r.uid, r.id>>}
        ELSE IF pc[p] = "idle" THEN hist.late \ {p} ELSE hist.late,
     registered |->
        IF "registered" \in run.track /\ r.op = "register" /\ w.status = 201
        THEN hist.registered \cup {[email |-> r.email, pw |-> r.pw, id |-> w.json[1].id]}
        ELSE hist.registered]

\* the history after request r on connection p went on to `label`
Proceed(p, r, label, u, c) ==
    [hist EXCEPT
        !.granted =
            IF /\ "granted" \in run.track
               /\ \/ label = "createUpdateUser"
                  \/ /\ label = "joinUpdateChat"
                     /\ CompareHashAndPassword(chat[c.Id].Password, r.pw)
            THEN @ \cup {<<u.Id, c.Id>>} ELSE @,
        !.late =
            IF pc[p] # "idle" THEN @
            ELSE IF r.op = "get" /\ <<r.uid, r.id>> \in hist.left THEN @ \cup {p}
            ELSE @ \ {p}]

\* the handler answers request r with response w and returns: its locals are
\* gone and the connection is free again
Respond(p, r, w) ==
    /\ resp' = IF Observed(r)
               THEN <<[req |-> r, status |-> w.status, text |-> w.text, json |-> w.json,
                       conn |-> p]>>
               ELSE <<>>
    /\ hist' = Answer(p, r, w)
    /\ UNCHANGED <<run, now>>
    /\ pc' = [pc EXCEPT ![p] = "idle"]
    /\ req' = [req EXCEPT ![p] = NoReq]
    /\ ctx' = [ctx EXCEPT ![p] = NoUser]
    /\ loc' = [loc EXCEPT ![p] = NoChat]

\* the handler of request r goes on to `label` with the context's user u and
\* the local chat c
Goto(p, r, label, u, c) ==
    /\ resp' = <<>>
    /\ hist' = Proceed(p, r, label, u, c)
    /\ UNCHANGED <<run, now>>
    /\ pc' = [pc EXCEPT ![p] = label]
    /\ req' = [req EXCEPT ![p] = r]
    /\ ctx' = [ctx EXCEPT ![p] = u]
    /\ loc' = [loc EXCEPT ![p] = c]

\* a store write is done (ok) or fails with an error of the driver, nothing
\* written
Exec(ok) ==
    /\ ~ok => failed < MaxFailures
    /\ failed' = IF ok THEN failed ELSE failed + 1

\* the requests a client may send: register, or a protected call carrying the
\* token createJWT issued for a stored user
RegisterRequests ==
    {[op |-> "register", uid |-> 0, id |-> 0, pw |-> r.pw, username |-> r.username,
      email |-> r.email, auth |-> <<>>] : r \in Registrations}

\* createJWT: the token, signed with HS256 under JWT_SECRET
createJWT(id) ==
    [alg |-> "HS256", key |-> "JWT_SECRET", claims |-> [expiresAt |-> ExpiresAt, userId |-> id]]

\* validateJWT at time t, no error and token.Valid: jwt.Parse wants an HMAC
\* algorithm, a signature under JWT_SECRET and, of the claims, an "exp" that has
\* not passed when there is one
validateJWT(token, t) ==
    /\ token.alg \in {"HS256", "HS384", "HS512"}
    /\ token.key = "JWT_SECRET"
    /\ "exp" \in DOMAIN token.claims => t <= token.claims.exp

LimitRegisterRequests ==
    {[op |-> "register", uid |-> 0, id |-> 0, pw |-> r.pw, username |-> r.username,
      email |-> r.email, auth |-> <<>>] : r \in LimitRegistrations}

LoginRequests ==
    {[op |-> "login", uid |-> 0, id |-> 0, pw |-> w, username |-> <<>>, email |-> r.email,
      auth |-> <<>>] :
        r \in Registrations, w \in Passwords}

\* a call of a protected route by the holder of token t, a token with the claim
\* userId = u: the Authorization header is "Bearer <t>"
Call(op, u, t, c, w) ==
    [op |-> op, uid |-> u, id |-> c, pw |-> w, username |-> <<>>, email |-> <<>>,
     auth |-> <<"Bearer", t>>]

CallsWith(u, t) ==
    {Call("create", u, t, 0, w) : w \in run.passwords}
    \cup {Call("get", u, t, c, "") : c \in ChatIds}
    \cup {Call("join", u, t, c, w) : c \in ChatIds, w \in run.passwords}
    \cup {Call("leave", u, t, c, "") : c \in ChatIds}

ProtectedRequests == UNION {CallsWith(u, createJWT(u)) : u \in 1..Len(users)}

\* tokens the server did not issue: signed with another key, signed with another
\* family of algorithms, and one with no userId claim
ForeignTokens(u) ==
    {[createJWT(u) EXCEPT !.key = "other"],
     [createJWT(u) EXCEPT !.alg = "RS256"],
     [createJWT(u) EXCEPT !.claims = [expiresAt |-> ExpiresAt]]}

\* calls of a protected route that carry no token of the server: no
\* Authorization header, another scheme, "Bearer" with nothing after it, and a
\* foreign token
UnauthorizedRequests ==
    UNION {
        {[r EXCEPT !.auth = <<>>], [r EXCEPT !.auth = <<"Basic", r.auth[2]>>],
         [r EXCEPT !.auth = <<"Bearer">>]}
        \cup {[r EXCEPT !.auth = <<"Bearer", t>>] : t \in ForeignTokens(r.uid)}
        : r \in ProtectedRequests}

\* the server takes a request on connection p: the lowest free one and, when
\* requests are served one at a time, only while no other is being served
Accept(p) ==
    /\ pc[p] = "idle"
    /\ \A q \in 1..(p-1) : pc[q] # "idle"
    /\ serial => Idle
    /\ snap' = IF serial
               THEN <<[users |-> users, chat |-> chat, failed |-> failed]>>
               ELSE <<>>
    /\ UNCHANGED <<failed, serial>>

\* handleRegister for request r, up to store.GetUserByEmail
Register(p, r) ==
    IF len(r.username) > MaxUsernameLen \/ len(r.email) > MaxEmailLen
    THEN Respond(p, r, HttpError("error: username can't be longer than 20 characters and email can't be longer than 50 characters", 400))
    ELSE IF RowsByEmail(r.email) # {}
    THEN Respond(p, r, HttpError("error: user already exists", 400))
    ELSE Goto(p, r, "createUser", ctx[p], loc[p])

\* handleRegister on one of the two usual registrations
handleRegister(p) ==
    \E r \in RegisterRequests :
        /\ Accept(p)
        /\ Register(p, r)
        /\ UNCHANGED <<users, chat>>

\* handleRegister on a registration at or around the limits
handleRegisterLimits(p) ==
    \E r \in LimitRegisterRequests :
        /\ Accept(p)
        /\ Register(p, r)
        /\ UNCHANGED <<users, chat>>

\* handleRegister: store.CreateUser, createJWT and the response
handleRegisterCreateUser(p, ok) ==
    /\ pc[p] = "createUser"
    /\ Exec(ok)
    /\ IF ok
       THEN /\ Len(users) < run.users
            /\ users' = Append(users, CreateUserRow(req[p].username, req[p].email, Hash(req[p].pw)))
            /\ Respond(p, req[p],
                       WriteJSON(201, [id |-> Len(users) + 1, username |-> req[p].username,
                                       email |-> req[p].email, chats |-> <<>>,
                                       token |-> createJWT(Len(users) + 1)]))
       ELSE /\ Respond(p, req[p], HttpError("error: internal server error", 500))
            /\ UNCHANGED users
    /\ UNCHANGED <<chat, serial, snap>>

\* handleLogin up to store.GetChats: store.GetUserByEmail returns one of the rows
\* with the email (`limit 1`)
handleLogin(p) ==
    \E r \in LoginRequests :
        /\ Accept(p)
        /\ IF RowsByEmail(r.email) = {}
           THEN Respond(p, r, HttpError("error: user not found", 400))
           ELSE \E i \in RowsByEmail(r.email) :
                IF ~UserValidatePassword(GetUserById(i), r.pw)
                THEN Respond(p, r, HttpError("error: invalid password", 400))
                ELSE Goto(p, r, "loginGetChats", GetUserById(i), loc[p])
        /\ UNCHANGED <<users, chat>>

\* handleLogin: createJWT, store.GetChats and the response
handleLoginGetChats(p) ==
    /\ pc[p] = "loginGetChats"
    /\ \E cs \in GetChatsResults(ctx[p].Chats) :
           Respond(p, req[p],
                   WriteJSON(201, [id |-> ctx[p].Id, username |-> ctx[p].Username,
                                   email |-> ctx[p].Email,
                                   chats |-> [k \in 1..Len(cs) |-> ToJSON(cs[k])],
                                   token |-> createJWT(ctx[p].Id)]))
    /\ UNCHANGED <<users, chat, failed, serial, snap>>

\* protectMiddleware for request r: the header and the token are checked, the
\* token's user is loaded and put in the context, and the wrapped handler is
\* called.  strings.Split(header, " ")[1] is out of range when the header has no
\* space.
Authorize(p, r) ==
    IF r.auth = <<>> \/ r.auth[1] # "Bearer"
    THEN Respond(p, r, HttpError("error: not authorized", 401))
    ELSE IF Len(r.auth) < 2
    THEN Respond(p, r, Panic)
    ELSE IF ~validateJWT(r.auth[2], now)
    THEN Respond(p, r, HttpError("error: not authorized", 401))
    ELSE IF "userId" \notin DOMAIN r.auth[2].claims
    THEN Respond(p, r, HttpError("error: not authorized", 401))
    ELSE IF ~UserExists(r.auth[2].claims.userId)
    THEN Respond(p, r, HttpError("error: user not found", 404))
    ELSE Goto(p, r, r.op, GetUserById(r.auth[2].claims.userId), loc[p])

\* protectMiddleware on a call that carries a token the server issued
protectMiddleware(p) ==
    \E r \in ProtectedRequests :
        /\ Accept(p)
        /\ Authorize(p, r)
        /\ UNCHANGED <<users, chat>>

\* protectMiddleware on a call that carries none
protectMiddlewareUnauthorized(p) ==
    \E r \in UnauthorizedRequests :
        /\ Accept(p)
        /\ Authorize(p, r)
        /\ UNCHANGED <<users, chat>>

\* time passes
Tick ==
    /\ now < MaxJumps * ExpiresAt
    /\ now' = now + ExpiresAt
    /\ resp' = <<>>
    /\ UNCHANGED <<users, chat, failed, serial, pc, req, ctx, loc, snap, run, hist>>

\* handleCreateChat up to store.CreateChat and the append to user.Chats
handleCreateChat(p, ok) ==
    /\ pc[p] = "create"
    /\ Exec(ok)
    /\ IF ok
       THEN /\ Len(chat) < ChatLimit
            /\ chat' = Append(chat, CreateChatRow(Hash(req[p].pw), ctx[p]))
            /\ Goto(p, req[p], "createUpdateUser",
                    [ctx[p] EXCEPT !.Chats = Append(@, Len(chat) + 1)],
                    CreateChat(Hash(req[p].pw), ctx[p]))
       ELSE /\ Respond(p, req[p], HttpError("error: internal server error", 500))
            /\ UNCHANGED chat
    /\ UNCHANGED <<users, serial, snap>>

\* handleCreateChat: store.UpdateUser and the response
handleCreateChatUpdateUser(p, ok) ==
    /\ pc[p] = "createUpdateUser"
    /\ Exec(ok)
    /\ IF ok
       THEN /\ users' = UpdateUser(ctx[p])
            /\ Respond(p, req[p], WriteJSON(201, ToJSON(loc[p])))
       ELSE /\ Respond(p, req[p], HttpError("error: internal server error", 500))
            /\ UNCHANGED users
    /\ UNCHANGED <<chat, serial, snap>>

\* handleGetChat without its check for the chat in user.Chats
GetChatResponseOpen(u, id, c) == WriteJSON(200, ToJSON(c))

\* handleGetChat telling a non-member that the chat exists
GetChatResponseForbidden(u, id, c) ==
    IF ~Contains(u.Chats, id)
    THEN HttpError("error: not authorized", 401)
    ELSE WriteJSON(200, ToJSON(c))

\* the response of handleGetChat for the user u of the context and chat id `id`,
\* store.GetChatById having returned c
GetChatResponse(u, id, c) ==
    IF ~Contains(u.Chats, id)
    THEN HttpError("error: page not found", 404)
    ELSE WriteJSON(200, ToJSON(c))

\* handleGetChat
handleGetChat(p) ==
    /\ pc[p] = "get"
    /\ IF ~ChatExists(req[p].id)
       THEN Respond(p, req[p], HttpError("error: page not found", 404))
       ELSE \E c \in GetChatByIdResults(req[p].id) :
                Respond(p, req[p], GetChatResponse(ctx[p], req[p].id, c))
    /\ UNCHANGED <<users, chat, failed, serial, snap>>

\* handleJoinChat without its check for the user in the chat
JoinNeverMember(u, id) == FALSE

\* handleJoinChat's check for the user in the chat: the chat id is looked up
\* in user.Chats
JoinAlreadyMember(u, id) == Contains(u.Chats, id)

\* handleJoinChat up to the store writes
handleJoinChat(p) ==
    /\ pc[p] = "join"
    /\ IF ~ChatExists(req[p].id)
       THEN Respond(p, req[p], HttpError("error: page not found", 404))
       ELSE \E c \in GetChatByIdResults(req[p].id) :
            IF ~ChatValidatePassword(c, req[p].pw)
            THEN Respond(p, req[p], HttpError("error: not authorized", 401))
            ELSE IF JoinAlreadyMember(ctx[p], req[p].id)
            THEN Respond(p, req[p], Unwritten)
            ELSE Goto(p, req[p], "joinUpdateChat",
                      [ctx[p] EXCEPT !.Chats = Append(@, c.Id)],
                      [c EXCEPT !.Users = Append(@, [Id |-> ctx[p].Id, Username |-> ctx[p].Username])])
    /\ UNCHANGED <<users, chat, failed, serial, snap>>

\* handleJoinChat: store.UpdateChat
handleJoinChatUpdateChat(p, ok) ==
    /\ pc[p] = "joinUpdateChat"
    /\ Exec(ok)
    /\ IF ok
       THEN /\ chat' = UpdateChat(loc[p])
            /\ Goto(p, req[p], "joinUpdateUser", ctx[p], loc[p])
       ELSE /\ Respond(p, req[p], HttpError("error: internal server error", 500))
            /\ UNCHANGED chat
    /\ UNCHANGED <<users, serial, snap>>

\* handleJoinChat: store.UpdateUser and the response
handleJoinChatUpdateUser(p, ok) ==
    /\ pc[p] = "joinUpdateUser"
    /\ Exec(ok)
    /\ IF ok
       THEN /\ users' = UpdateUser(ctx[p])
            /\ Respond(p, req[p], WriteJSON(200, ToJSON(loc[p])))
       ELSE /\ Respond(p, req[p], HttpError("error: internal server error", 500))
            /\ UNCHANGED users
    /\ UNCHANGED <<chat, serial, snap>>

\* the removal loop of handleLeaveChat cutting at index 0 whatever it found
RemoveAuthorHead(authors, uid) == SubSeq(authors, 2, Len(authors))

\* chat.Users without the first author whose Id is uid
RemoveAuthor(authors, uid) ==
    IF \E i \in 1..Len(authors) : authors[i].Id = uid
    THEN LET i == CHOOSE k \in 1..Len(authors) :
                      authors[k].Id = uid /\ \A j \in 1..(k-1) : authors[j].Id # uid
         IN  SubSeq(authors, 1, i-1) \o SubSeq(authors, i+1, Len(authors))
    ELSE authors

\* handleLeaveChat without its check for the user in the chat
LeaveAlwaysMember(u, id) == TRUE

\* handleLeaveChat's check for the user in the chat: the chat id is looked up
\* in user.Chats
LeaveIsMember(u, id) == Contains(u.Chats, id)

\* handleLeaveChat up to the store writes
handleLeaveChat(p) ==
    /\ pc[p] = "leave"
    /\ IF ~ChatExists(req[p].id)
       THEN Respond(p, req[p], HttpError("error: page not found", 404))
       ELSE \E c \in GetChatByIdResults(req[p].id) :
            IF ~LeaveIsMember(ctx[p], req[p].id)
            THEN Respond(p, req[p], HttpError("error: page not found", 404))
            ELSE Goto(p, req[p], "leaveUpdateChat",
                      [ctx[p] EXCEPT !.Chats = RemoveFirst(@, req[p].id)],
                      [c EXCEPT !.Users = RemoveAuthor(@, ctx[p].Id)])
    /\ UNCHANGED <<users, chat, failed, serial, snap>>

\* handleLeaveChat: store.UpdateChat
handleLeaveChatUpdateChat(p, ok) ==
    /\ pc[p] = "leaveUpdateChat"
    /\ Exec(ok)
    /\ IF ok
       THEN /\ chat' = UpdateChat(loc[p])
            /\ Goto(p, req[p], "leaveUpdateUser", ctx[p], loc[p])
       ELSE /\ Respond(p, req[p], HttpError("error: internal server error", 500))
            /\ UNCHANGED chat
    /\ UNCHANGED <<users, serial, snap>>

\* handleLeaveChat with the error of store.UpdateUser dropped
handleLeaveChatUpdateUserIgnoringError(p, ok) ==
    /\ pc[p] = "leaveUpdateUser"
    /\ Exec(ok)
    /\ users' = IF ok THEN UpdateUser(ctx[p]) ELSE users
    /\ Respond(p, req[p], WriteJSON(200, "chat deleted"))
    /\ UNCHANGED <<chat, serial, snap>>

\* handleLeaveChat: store.UpdateUser and the response
handleLeaveChatUpdateUser(p, ok) ==
    /\ pc[p] = "leaveUpdateUser"
    /\ Exec(ok)
    /\ IF ok
       THEN /\ users' = UpdateUser(ctx[p])
            /\ Respond(p, req[p], WriteJSON(200, "chat deleted"))
       ELSE /\ Respond(p, req[p], HttpError("error: internal server error", 500))
            /\ UNCHANGED users
    /\ UNCHANGED <<chat, serial, snap>>

(* ------------------------------------------------------- specifications *)

\* one step of request p; `outcomes` are the results a store write may have
\* (TRUE: done, FALSE: the driver returned an error and nothing was written)
Step(p, outcomes) ==
    \/ handleRegister(p)
    \/ protectMiddleware(p)
    \/ handleGetChat(p)
    \/ handleJoinChat(p)
    \/ handleLeaveChat(p)
    \/ \E ok \in outcomes :
        \/ handleRegisterCreateUser(p, ok)
        \/ handleCreateChat(p, ok)
        \/ handleCreateChatUpdateUser(p, ok)
        \/ handleJoinChatUpdateChat(p, ok)
        \/ handleJoinChatUpdateUser(p, ok)
        \/ handleLeaveChatUpdateChat(p, ok)
        \/ handleLeaveChatUpdateUser(p, ok)

Init == Boot(FALSE)

\* requests interleave; store writes may fail
Next == \E p \in Procs : Step(p, BOOLEAN)
Spec == Init /\ [][Next]_vars

\* requests interleave; every store write succeeds
ConcNext == \E p \in Procs : Step(p, {TRUE})
ConcSpec == Init /\ [][ConcNext]_vars

\* one request at a time; every store write succeeds
SeqInit == Boot(TRUE)
SeqNext == \E p \in Procs : Step(p, {TRUE})
SeqSpec == SeqInit /\ [][SeqNext]_vars

\* one request at a time; store writes may fail
SeqFailNext == \E p \in Procs : Step(p, BOOLEAN)
SeqFailSpec == SeqInit /\ [][SeqFailNext]_vars

\* one request at a time, every store write succeeding, clients logging in too;
\* the run remembers what each Register was sent and answered
LoginInit ==
    Start(TRUE, [users |-> MaxUsers, chats |-> MaxChats, passwords |-> Passwords,
           track |-> {"registered"}],
          <<>>, <<>>)
LoginNext ==
    \E p \in Procs :
        \/ Step(p, {TRUE})
        \/ handleLogin(p)
        \/ handleLoginGetChats(p)
LoginSpec == LoginInit /\ [][LoginNext]_vars

\* one request at a time, every store write succeeding; time passes, and
\* clients also call the protected routes without a token of the server
TokenInit ==
    Start(TRUE,
          [users |-> MaxUsers, chats |-> MaxConcChats, passwords |-> Passwords, track |-> {}],
          <<>>, <<>>)
TokenNext ==
    \/ Tick
    \/ \E p \in Procs :
           \/ Step(p, {TRUE})
           \/ protectMiddlewareUnauthorized(p)
TokenSpec == TokenInit /\ [][TokenNext]_vars

\* the requests of one user interleave over two chats, every store write
\* succeeding; the run remembers who left which chat
RaceInit ==
    Start(FALSE,
          [users |-> MaxRaceUsers, chats |-> MaxChats, passwords |-> {"p"},
           track |-> {"left"}],
          <<>>, <<>>)
RaceNext == \E p \in Procs : Step(p, {TRUE})
RaceSpec == RaceInit /\ [][RaceNext]_vars

\* tables the server may find when it starts (the tables outlive the server, and
\* the program has no route that stores a message): ann, the only member of
\* chat 1, which holds one message of hers in its messages column
StoredUsers == <<[CreateUserRow(Ann, AnnMail, Hash("p")) EXCEPT !.Chats = <<1>>]>>
StoredChat ==
    <<[CreateChatRow(Hash("p"), [Id |-> 1]) EXCEPT
          !.Messages = <<[chatId |-> 1, text |-> "hi",
                          author |-> [id |-> 1, username |-> Ann]]>>]>>

\* one request at a time, every store write succeeding, on tables that hold a
\* chat with a message
StoredInit ==
    Start(TRUE,
          [users |-> MaxUsers, chats |-> MaxChats, passwords |-> Passwords, track |-> {}],
          StoredUsers, StoredChat)
StoredNext == \E p \in Procs : Step(p, {TRUE})
StoredSpec == StoredInit /\ [][StoredNext]_vars

\* requests interleave, every store write succeeding; the run remembers who
\* created which chat and who joined it with its password
AccessInit ==
    Start(FALSE,
          [users |-> MaxUsers, chats |-> MaxConcChats, passwords |-> Passwords,
           track |-> {"granted"}],
          <<>>, <<>>)
AccessNext == \E p \in Procs : Step(p, {TRUE})
AccessSpec == AccessInit /\ [][AccessNext]_vars

\* one Register at a time, store writes failing or not, with usernames and
\* emails at and around the limits
RegisterInit ==
    Start(TRUE,
          [users |-> MaxUsers, chats |-> MaxChats, passwords |-> Passwords, track |-> {}],
          <<>>, <<>>)
RegisterNext ==
    \E p \in Procs :
        \/ handleRegister(p)
        \/ handleRegisterLimits(p)
        \/ \E ok \in BOOLEAN : handleRegisterCreateUser(p, ok)
RegisterSpec == RegisterInit /\ [][RegisterNext]_vars

(* --------------------------------------------------------------- claims *)

\* user u has chat c in the stored chat list / chat c has user u in its stored
\* member list
Listed(u, c) == Contains(users[u].Chats, c)
Member(u, c) == Contains(chat[c].Users, u)

Consistent == \A u \in 1..Len(users) : \A c \in 1..Len(chat) : Listed(u, c) <=> Member(u, c)

\* serial runs: the last request with its response, and the tables it started from
Last == resp[1]
Before == snap[1]
Answered(op) == resp # <<>> /\ Last.req.op = op
StoreAsBefore == users = Before.users /\ chat = Before.chat

\* C1: requests served one at a time, every store write succeeding: after each
\* request, chat c is in user u's stored chat list iff u is in c's stored member
\* list, for every u and c.
C1_Consistent == Idle => Consistent

\* a Leave has just succeeded on a chat that keeps another member, who is also in
\* a second chat
C1_Witness ==
    /\ Answered("leave") /\ Last.status = 200
    /\ Len(chat) = 2
    /\ \E u \in 1..Len(users) : Member(u, 1) /\ Member(u, 2) /\ u # Last.req.uid

\* C2: requests interleaving, every store write succeeding: whenever no request
\* is in flight, chat c is in user u's stored chat list iff u is in c's stored
\* member list (each operation's two writes act as one atomic update).
C2_AtomicWrites == Idle => Consistent

\* C3: under any interleaving of requests, no chat's stored member list holds a
\* user id twice.
C3_NoDuplicateMembers ==
    \A c \in 1..Len(chat) : \A u \in 1..Len(users) : Count(chat[c].Users, u) <= 1

\* C4: under any interleaving of Create, Join and Leave requests (store writes
\* failing or not), no user's stored chat list holds a chat id twice.
C4_NoDuplicateChats ==
    \A u \in 1..Len(users) : \A c \in 1..Len(chat) : Count(users[u].Chats, c) <= 1

\* racing requests of one user have put the user twice in a chat's member list,
\* and the chat is once in the user's chat list
C4_Witness ==
    \E u \in 1..Len(users) : \E c \in 1..Len(chat) :
        Count(chat[c].Users, u) >= 2 /\ Count(users[u].Chats, c) = 1

\* C5: GetChat answers 200 with the chat only when the chat id is in the
\* requester's chat list; for a chat the requester is not a member of it answers
\* exactly what it answers for a chat id that does not exist (404, same body).
C5_GetChatNoLeak ==
    Answered("get") =>
        LET mine == Contains(Before.users[Last.req.uid].Chats, Last.req.id)
            missing == Last.req.id > Len(Before.chat)
            answer == [status |-> Last.status, text |-> Last.text, json |-> Last.json]
        IN  /\ Last.status = 200 => mine
            /\ (missing \/ ~mine) => answer = HttpError("error: page not found", 404)

\* GetChat has answered 404 for a stored chat, with members, that is not in the
\* requester's chat list
C5_Witness ==
    /\ Answered("get") /\ Last.status = 404
    /\ Last.req.id <= Len(chat)
    /\ ~Listed(Last.req.uid, Last.req.id)
    /\ Len(chat[Last.req.id].Users) >= 1

\* C6: a Join of a stored chat with a password that does not verify against the
\* chat's hash answers 401 and leaves every users and chat row as it was.
C6_BadPasswordNoChange ==
    (/\ Answered("join")
     /\ Last.req.id <= Len(Before.chat)
     /\ ~CompareHashAndPassword(Before.chat[Last.req.id].Password, Last.req.pw))
    => (Last.status = 401 /\ StoreAsBefore)

\* a Join with the wrong password has been answered, by a user who is not in the
\* chat, the chat having a member
C6_Witness ==
    /\ Answered("join")
    /\ Last.req.id <= Len(Before.chat)
    /\ ~CompareHashAndPassword(Before.chat[Last.req.id].Password, Last.req.pw)
    /\ ~Member(Last.req.uid, Last.req.id)
    /\ Len(chat[Last.req.id].Users) >= 1

\* C7: a Leave of a chat whose id is not in the requester's chat list, the chat
\* stored or not, answers 404 and leaves every users and chat row as it was.
C7_LeaveNotMember ==
    (/\ Answered("leave")
     /\ ~Contains(Before.users[Last.req.uid].Chats, Last.req.id))
    => (/\ Last.status = 404 /\ Last.text = "error: page not found"
        /\ StoreAsBefore)

\* a Leave of a stored chat with members has been answered for a user who never
\* joined it
C7_Witness ==
    /\ Answered("leave")
    /\ Last.req.id <= Len(Before.chat)
    /\ ~Contains(Before.users[Last.req.uid].Chats, Last.req.id)
    /\ ~Member(Last.req.uid, Last.req.id)
    /\ Len(chat[Last.req.id].Users) >= 1

\* C8: requests served one at a time: after a Join with the right password has
\* been answered 200, the user is exactly once in the chat's member list and the
\* chat exactly once in the user's chat list; when the user had joined before,
\* the tables are as the earlier Join left them.
C8_JoinIdempotent ==
    (Answered("join") /\ Last.status = 200) =>
        /\ Count(chat[Last.req.id].Users, Last.req.uid) = 1
        /\ Count(users[Last.req.uid].Chats, Last.req.id) = 1
        /\ Contains(Before.users[Last.req.uid].Chats, Last.req.id) => StoreAsBefore

\* a second Join has been answered for a user who had joined (not created) the
\* chat
C8_Witness ==
    /\ Answered("join") /\ Last.status = 200
    /\ Contains(Before.users[Last.req.uid].Chats, Last.req.id)
    /\ Before.chat[Last.req.id].Users[1] # Last.req.uid

\* C9: a Join with the right password by a user who is already a member changes
\* no row and is answered 200 with the chat as stored.
C9_RejoinReturnsChat ==
    (/\ Answered("join")
     /\ Last.req.id <= Len(Before.chat)
     /\ CompareHashAndPassword(Before.chat[Last.req.id].Password, Last.req.pw)
     /\ Contains(Before.users[Last.req.uid].Chats, Last.req.id))
    => (/\ StoreAsBefore
        /\ Last.status = 200
        /\ Len(Last.json) = 1
        /\ Last.json[1].id = Last.req.id
        /\ [k \in 1..Len(Last.json[1].users) |-> Last.json[1].users[k].Id]
               = chat[Last.req.id].Users)

\* C10: Create, Join and Leave are all-or-nothing: a request answered with an
\* error leaves every users and chat row as it was before the request.
C10_AllOrNothing ==
    (/\ resp # <<>>
     /\ Last.req.op \in {"create", "join", "leave"}
     /\ Last.status >= 400)
    => StoreAsBefore

\* C11: requests served one at a time, store writes failing or not: a Create,
\* Join or Leave during which a store write failed is answered 500; one answered
\* with success (201 for Create, 200 with the chat for a Join, 200 for Leave) had
\* no failed write and both of its writes are in the tables.
C11_FailedWriteIs500 ==
    (resp # <<>> /\ Last.req.op \in {"create", "join", "leave"}) =>
        /\ failed > Before.failed => Last.status = 500
        /\ (Last.req.op = "create" /\ Last.status = 201) =>
               /\ failed = Before.failed
               /\ Len(chat) = Len(Before.chat) + 1
               /\ Member(Last.req.uid, Len(chat)) /\ Listed(Last.req.uid, Len(chat))
        /\ (Last.req.op = "join" /\ Last.status = 200 /\ Last.json # <<>>) =>
               /\ failed = Before.failed
               /\ Member(Last.req.uid, Last.req.id) /\ Listed(Last.req.uid, Last.req.id)
        /\ (Last.req.op = "leave" /\ Last.status = 200) =>
               /\ failed = Before.failed
               /\ ~Member(Last.req.uid, Last.req.id) /\ ~Listed(Last.req.uid, Last.req.id)

\* a Leave has been answered after its UpdateChat was done and its UpdateUser
\* failed
C11_Witness ==
    /\ Answered("leave")
    /\ failed > Before.failed
    /\ chat # Before.chat
    /\ users = Before.users

\* C12: for every member list GetChatById hands to GetAuthors, in whatever order
\* the store returns the rows, the result has the length of the list and its
\* i-th element carries the i-th id of the list with the username stored under
\* that id.
C12_GetAuthorsPairsByPosition ==
    \A c \in 1..Len(chat) : \A rows \in Orders(RowsByIds(chat[c].Users)) :
        LET arr == chat[c].Users
            authors == GetAuthors(arr, rows)
        IN  /\ Len(authors) = Len(arr)
            /\ \A i \in 1..Len(arr) :
                   /\ authors[i].Id = arr[i]
                   /\ authors[i].Username = users[arr[i]].Username

\* every users row but u's and every chat row but c's is as before the last
\* request, and so is everything in those two rows but the two lists
OthersAsBefore(u, c) ==
    /\ Len(users) = Len(Before.users) /\ Len(chat) = Len(Before.chat)
    /\ \A v \in 1..Len(users) :
           [users[v] EXCEPT !.Chats = <<>>] = [Before.users[v] EXCEPT !.Chats = <<>>]
    /\ \A v \in 1..Len(users) : v # u => users[v].Chats = Before.users[v].Chats
    /\ \A d \in 1..Len(chat) :
           [chat[d] EXCEPT !.Users = <<>>] = [Before.chat[d] EXCEPT !.Users = <<>>]
    /\ \A d \in 1..Len(chat) : d # c => chat[d].Users = Before.chat[d].Users

\* C13: requests served one at a time, every store write succeeding: after a
\* successful Join of chat c by a non-member u, c's member list is the previous
\* one plus u and u's chat list the previous one plus c; after a successful
\* Leave, c's member list is the previous one minus u and u's chat list the
\* previous one minus c; no other user's list and no other chat's list changes.
C13_JoinLeaveEffect ==
    LET u == Last.req.uid
        c == Last.req.id
    IN  /\ (/\ Answered("join") /\ Last.status = 200
             /\ ~Contains(Before.users[u].Chats, c)) =>
               /\ chat[c].Users = Append(Before.chat[c].Users, u)
               /\ users[u].Chats = Append(Before.users[u].Chats, c)
               /\ OthersAsBefore(u, c)
        /\ (Answered("leave") /\ Last.status = 200) =>
               /\ chat[c].Users = RemoveFirst(Before.chat[c].Users, u)
               /\ users[u].Chats = RemoveFirst(Before.users[u].Chats, c)
               /\ ~Member(u, c) /\ ~Listed(u, c)
               /\ OthersAsBefore(u, c)

\* a Leave has just succeeded for the second of two members of a chat, who is
\* listed in another chat too
C13_Witness ==
    /\ Answered("leave") /\ Last.status = 200
    /\ Len(Before.chat[Last.req.id].Users) = 2
    /\ Before.chat[Last.req.id].Users[2] = Last.req.uid
    /\ Len(Before.users[Last.req.uid].Chats) = 2

\* C14: requests interleaving: no two stored users have the same email.
C14_UniqueEmail ==
    \A i, j \in 1..Len(users) : users[i].Email = users[j].Email => i = j

\* C15: requests served one at a time: once a Register has succeeded, a Login
\* with its email and password, after any other requests, is answered 201 with
\* the user id the Register returned, and a Login with its email and another
\* password is not answered with success.
C15_LoginAfterRegister ==
    Answered("login") =>
        \A g \in hist.registered :
            g.email = Last.req.email =>
                IF g.pw = Last.req.pw
                THEN Last.status = 201 /\ Last.json[1].id = g.id
                ELSE Last.status >= 400

\* the second registered user has logged in with the right password after
\* joining a chat
C15_Witness ==
    /\ Answered("login") /\ Last.status = 201
    /\ Last.json[1].id = 2
    /\ Len(Last.json[1].chats) >= 1
    /\ \E g \in hist.registered : g.id = 2 /\ g.email = Last.req.email

\* the Authorization header h carries no token that validates at the time and
\* has a userId claim
NoValidToken(h) ==
    \/ h = <<>>
    \/ h[1] # "Bearer"
    \/ Len(h) < 2
    \/ ~validateJWT(h[2], now)
    \/ "userId" \notin DOMAIN h[2].claims

ProtectedOps == {"create", "get", "join", "leave"}

\* C16: a call of a protected route that presents a token issued for a user
\* after the token's expiry time has passed is answered 401.
C16_ExpiredTokenRejected ==
    (/\ resp # <<>>
     /\ Last.req.op \in ProtectedOps
     /\ Last.req.auth = <<"Bearer", createJWT(Last.req.uid)>>
     /\ now > createJWT(Last.req.uid).claims.expiresAt)
    => Last.status = 401

\* C17: a call of a protected route whose Authorization header is absent, is not
\* of the bearer scheme, has no token part, or carries a token that fails
\* validation or has no userId claim is answered 401 and changes no stored row.
C17_UnauthorizedIs401 ==
    (/\ resp # <<>>
     /\ Last.req.op \in ProtectedOps
     /\ NoValidToken(Last.req.auth))
    => Last.status = 401 /\ StoreAsBefore

\* C18: requests interleaving: once a Leave of chat c by user u has succeeded,
\* every GetChat of c by u taken after it is answered 404, until u completes a
\* Join of c with the right password.
C18_LeftStaysOut ==
    (Answered("get") /\ Last.conn \in hist.late) => Last.status = 404

\* C19: requests served one at a time: a successful Join or Leave of a chat with
\* stored messages leaves the stored messages as they were, and a GetChat of
\* such a chat answered 200 returns the stored messages.
C19_MessagesKept ==
    /\ (/\ resp # <<>> /\ Last.req.op \in {"join", "leave"} /\ Last.status = 200
        /\ Last.req.id <= Len(Before.chat)
        /\ Before.chat[Last.req.id].Messages # <<>>)
       => chat[Last.req.id].Messages = Before.chat[Last.req.id].Messages
    /\ (/\ Answered("get") /\ Last.status = 200
        /\ chat[Last.req.id].Messages # <<>>)
       => Last.json[1].messages = chat[Last.req.id].Messages

\* C20: requests interleaving: a GetChat of chat c by user u is answered 200
\* only if u created c before, or got before past the password check of a Join
\* of c sent with c's password.
C20_AccessOnlyByCreateOrJoin ==
    (Answered("get") /\ Last.status = 200) =>
        <<Last.req.uid, Last.req.id>> \in hist.granted

\* a GetChat has been answered 200 for the user who did not create the chat,
\* while another request is in flight
C20_Witness ==
    /\ Answered("get") /\ Last.status = 200
    /\ \A u \in 1..Len(users) : <<u, Last.req.id>> \in hist.granted
    /\ Len(users) = 2
    /\ \E q \in Procs : pc[q] # "idle"

\* C21: a Register whose username has more than 20 characters, whose email has
\* more than 50, or whose email is that of a stored user is answered 400 and
\* adds no users row; any other Register, no store write failing, is answered
\* 201 and adds exactly one users row, with its username and email, an empty
\* chat list and the next id, which the response carries.
C21_RegisterChecks ==
    Answered("register") =>
        IF \/ Len(Last.req.username) > MaxUsernameLen
           \/ Len(Last.req.email) > MaxEmailLen
           \/ \E i \in 1..Len(Before.users) : Before.users[i].Email = Last.req.email
        THEN Last.status = 400 /\ users = Before.users
        ELSE failed = Before.failed =>
                /\ Last.status = 201
                /\ users = Append(Before.users,
                                  CreateUserRow(Last.req.username, Last.req.email,
                                                Hash(Last.req.pw)))
                /\ Last.json[1].id = Len(Before.users) + 1
                /\ Last.json[1].chats = <<>>

====
